---- MODULE Spec2Model ----
(***************************************************************************)
(* diagnose-wi (cmd/diagnose-wi/main.go): a sequential, read-only          *)
(* diagnostic of a GKE Workload Identity binding.  main is modelled as a   *)
(* state machine with one action per step of main; every Go string that    *)
(* the program builds, splits or trims is a sequence of one-character      *)
(* strings, so that formatting and parsing are computed, not assumed.      *)
(* IAM role names are only ever compared for equality and are kept as      *)
(* atomic strings.                                                         *)
(***************************************************************************)
EXTENDS Integers, Sequences, FiniteSets, TLC

\* ------------------------------------------------------------------ bounds
\* Longest binding list of an IAM policy that the policy checks are run on.
MaxBindings == 2
\* Longest member list of a binding that the policy checks are run on.
MaxMembers == 2

\* ------------------------------------------------------------- Go strings
EmptyStr == <<>>

\* strings.Index for a one-character separator: 0 when absent.
RECURSIVE IndexFrom(_, _, _)
IndexFrom(s, c, i) ==
    IF i > Len(s) THEN 0
    ELSE IF s[i] = c THEN i
    ELSE IndexFrom(s, c, i + 1)

\* strings.Split(s, sep) for a one-character sep: always at least one piece.
RECURSIVE Split(_, _)
Split(s, sep) ==
    LET i == IndexFrom(s, sep, 1) IN
    IF i = 0 THEN <<s>>
    ELSE <<SubSeq(s, 1, i - 1)>> \o Split(SubSeq(s, i + 1, Len(s)), sep)

\* unicode.IsSpace on the characters the model uses.
IsSpace(c) == c \in {" ", "\n", "\t", "\r"}

RECURSIVE TrimLeft(_)
TrimLeft(s) ==
    IF s # <<>> /\ IsSpace(s[1]) THEN TrimLeft(Tail(s)) ELSE s

RECURSIVE TrimRight(_)
TrimRight(s) ==
    IF s # <<>> /\ IsSpace(s[Len(s)]) THEN TrimRight(SubSeq(s, 1, Len(s) - 1)) ELSE s

\* strings.TrimSpace
TrimSpace(s) == TrimRight(TrimLeft(s))

\* strconv.Quote on strings without characters that need escaping.
Quote(s) == <<"\"">> \o s \o <<"\"">>

\* fmt.Sprintf for the verbs %s and %q over string arguments.
RECURSIVE Sprintf(_, _)
Sprintf(format, args) ==
    IF format = <<>> THEN <<>>
    ELSE IF format[1] = "%" /\ Len(format) >= 2 /\ format[2] \in {"s", "q"}
         THEN (IF format[2] = "s" THEN args[1] ELSE Quote(args[1]))
              \o Sprintf(SubSeq(format, 3, Len(format)), Tail(args))
    ELSE <<format[1]>> \o Sprintf(Tail(format), args)

\* ------------------------------------------------------- format literals
\* "serviceAccount:%s[%s/%s]"
KsaMemberFormat ==
    <<"s","e","r","v","i","c","e","A","c","c","o","u","n","t",":",
      "%","s","[","%","s","/","%","s","]">>

\* "serviceAccount:%s"
GsaMemberFormat ==
    <<"s","e","r","v","i","c","e","A","c","c","o","u","n","t",":","%","s">>

\* "projects/%s/serviceAccounts/%s"
GsaResourceFormat ==
    <<"p","r","o","j","e","c","t","s","/","%","s","/",
      "s","e","r","v","i","c","e","A","c","c","o","u","n","t","s","/","%","s">>

\* "projects/%s/locations/%s/clusters/%s"
ClusterNameFormat ==
    <<"p","r","o","j","e","c","t","s","/","%","s","/",
      "l","o","c","a","t","i","o","n","s","/","%","s","/",
      "c","l","u","s","t","e","r","s","/","%","s">>

\* "Pod %q uses "
PodPrefixFormat == <<"P","o","d"," ","%","q"," ","u","s","e","s"," ">>

\* ------------------------------------------------------- pure functions
ksaRoles ==
    { "roles/iam.workloadIdentityUser",
      "roles/iam.serviceAccountTokenCreator",
      "roles/editor",
      "roles/owner" }

\* Variant: namespace and name in the other order.
ksaIAMPolicyMemberSwapped(wiPoolArg, ns, ksaName) ==
    Sprintf(KsaMemberFormat, <<wiPoolArg, ksaName, ns>>)

ksaIAMPolicyMember(wiPoolArg, ns, ksaName) ==
    Sprintf(KsaMemberFormat, <<wiPoolArg, ns, ksaName>>)

gsaIAMPolicyMember(gsaEmail) == Sprintf(GsaMemberFormat, <<gsaEmail>>)

getClusterAPIName(prj, location, name) ==
    Sprintf(ClusterNameFormat, <<prj, location, name>>)

\* getGSAAPIResource: sp[1] of the split on "@" is read without a length
\* check, so an email without "@" is an index-out-of-range panic.
getGSAAPIResource(gsaEmail) ==
    LET sp == Split(gsaEmail, "@") IN
    IF Len(sp) < 2 THEN [panic |-> TRUE, val |-> <<>>]
    ELSE LET sp2 == Split(sp[2], ".")
             proj == sp2[1]
         IN [panic |-> FALSE, val |-> Sprintf(GsaResourceFormat, <<proj, gsaEmail>>)]

\* The inner loop of getGSAsRolesOnProject: is m one of the members.
RECURSIVE HasMember(_, _)
HasMember(members, m) ==
    IF members = <<>> THEN FALSE
    ELSE IF members[1] = m THEN TRUE
    ELSE HasMember(Tail(members), m)

\* The loop of ksaHasAccessToGSA over the fetched policy.
RECURSIVE MemberGrants(_, _, _)
MemberGrants(members, role, ksaMemberArg) ==
    IF members = <<>> THEN FALSE
    ELSE IF members[1] = ksaMemberArg /\ role \in ksaRoles THEN TRUE
    ELSE MemberGrants(Tail(members), role, ksaMemberArg)

\* Variant: the verdict is that of the first binding listing the member.
RECURSIVE BindingsGrantFirstListing(_, _)
BindingsGrantFirstListing(bindings, ksaMemberArg) ==
    IF bindings = <<>> THEN FALSE
    ELSE IF HasMember(bindings[1].members, ksaMemberArg) THEN bindings[1].role \in ksaRoles
    ELSE BindingsGrantFirstListing(Tail(bindings), ksaMemberArg)

RECURSIVE BindingsGrant(_, _)
BindingsGrant(bindings, ksaMemberArg) ==
    IF bindings = <<>> THEN FALSE
    ELSE IF MemberGrants(bindings[1].members, bindings[1].role, ksaMemberArg) THEN TRUE
    ELSE BindingsGrant(Tail(bindings), ksaMemberArg)

\* Variant: no break, the role is appended for every listing of the member.
RECURSIVE RolesPerListing(_, _)
RolesPerListing(bindings, gsaMember) ==
    IF bindings = <<>> THEN <<>>
    ELSE [k \in 1..Cardinality({ j \in DOMAIN bindings[1].members :
                                    bindings[1].members[j] = gsaMember })
            |-> bindings[1].role]
         \o RolesPerListing(Tail(bindings), gsaMember)

\* The loop of getGSAsRolesOnProject: append the role at the first matching
\* member of a binding, then break to the next binding.
RECURSIVE RolesOf(_, _)
RolesOf(bindings, gsaMember) ==
    IF bindings = <<>> THEN <<>>
    ELSE (IF HasMember(bindings[1].members, gsaMember)
          THEN <<bindings[1].role>> ELSE <<>>)
         \o RolesOf(Tail(bindings), gsaMember)


\* ------------------------------------------------------ program state
VARIABLES
    \* command-line flags (main.go 32-48)
    serverFlag, kubeconfigFlag, ksaFlag, nsFlag, podFlag, projectFlag,
    clusterProjectFlag, clusterLocationFlag, clusterNameFlag,
    \* locals of main (main.go 62-118)
    prefix, pod, ksa, gsa, clusterProject, clusterLocation, clusterName,
    wiPool, hasAccess, project, roles,
    \* locals of ksaHasAccessToGSA and getGSAsRolesOnProject
    gsaAPIResource, gsaPolicy, ksaMember, iamPolicy,
    \* os/user's cached answer of user.Current: "unknown", "ok" or "err"
    userCurrent,
    \* the calls made so far to the outside, in order
    calls,
    \* position in main, the process exit code (-1 while running) and what
    \* was written to the log or to standard output
    pc, exitCode, output

flagVars ==
    <<serverFlag, kubeconfigFlag, ksaFlag, nsFlag, podFlag, projectFlag,
      clusterProjectFlag, clusterLocationFlag, clusterNameFlag>>

vars ==
    <<serverFlag, kubeconfigFlag, ksaFlag, nsFlag, podFlag, projectFlag,
      clusterProjectFlag, clusterLocationFlag, clusterNameFlag,
      prefix, pod, ksa, gsa, clusterProject, clusterLocation, clusterName,
      wiPool, hasAccess, project, roles,
      gsaAPIResource, gsaPolicy, ksaMember, iamPolicy,
      userCurrent, calls, pc, exitCode, output>>

\* ------------------------------------------------ values the runs draw
KsaNames == { <<"k">>, <<"K">> }
PodNames == { <<"x">> }
Namespaces == { <<"n">>, <<"m">> }
ProjectIds == { <<"j">> }
KubeconfigPaths == { <<"c">> }
\* ~/.kube/config, filepath.Join(usr.HomeDir, ".kube", "config")
HomeKubeconfig == <<"~">>
\* -clusterProject, -clusterLocation, -clusterName: unset, or all three set
ClusterFlagTriples == { <<EmptyStr, EmptyStr, EmptyStr>>, <<<<"u">>, <<"v">>, <<"w">>>> }
\* current-context values of ~/.kube/config: gke_p_l_n, gke_p_l_n_x, gke_p_l, and none
Contexts ==
    { <<"g","_","p","_","l","_","n">>,
      <<"g","_","p","_","l","_","n","_","x">>,
      <<"g","_","p","_","l">>,
      EmptyStr }
\* values of the iam.gke.io/gcp-service-account annotation
GsaEmails ==
    { <<"a","@","b",".","c">>,
      <<"a","@","b">>,
      <<"a",".","c">>,
      EmptyStr }
Pools == { <<"p",".","s">>, <<"q",".","s">> }
\* what `gcloud config get-value core/project` prints
GcloudOutputs == { <<"j","\n">>, <<" ","j"," ","\n">>, <<"\n">> }

Call(kind, a1, a2, ok, resp) ==
    [kind |-> kind, a1 |-> a1, a2 |-> a2, ok |-> ok, resp |-> resp]

\* IAM policies: sequences of bindings [role, members].
SeqsUpTo(S, n) == UNION { [1..k -> S] : k \in 0..n }
PoliciesOver(roleSet, memberSet, maxBindings, maxMembers) ==
    SeqsUpTo([role : roleSet, members : SeqsUpTo(memberSet, maxMembers)], maxBindings)

\* The policies a whole run of main is answered with: the empty policy and
\* the policies of one binding with at most one member.
RunRoles == { "roles/iam.workloadIdentityUser", "roles/viewer" }
\* serviceAccount:p.s[n/k] and serviceAccount:p.s[n/K]
RunGsaPolicyMembers ==
    { <<"s","e","r","v","i","c","e","A","c","c","o","u","n","t",":",
        "p",".","s","[","n","/","k","]">>,
      <<"s","e","r","v","i","c","e","A","c","c","o","u","n","t",":",
        "p",".","s","[","n","/","K","]">> }
RunGsaPolicies == PoliciesOver(RunRoles, RunGsaPolicyMembers, 1, 1)
\* serviceAccount:a@b.c and serviceAccount:a@b
RunProjectPolicyMembers ==
    { <<"s","e","r","v","i","c","e","A","c","c","o","u","n","t",":",
        "a","@","b",".","c">>,
      <<"s","e","r","v","i","c","e","A","c","c","o","u","n","t",":",
        "a","@","b">> }
RunProjectPolicies == PoliciesOver(RunRoles, RunProjectPolicyMembers, 1, 1)

\* ------------------------------------------------------------- Init
Init ==
    /\ serverFlag = EmptyStr
    /\ kubeconfigFlag \in {EmptyStr} \cup KubeconfigPaths
    /\ ksaFlag \in {EmptyStr, <<"k">>}
    /\ podFlag \in {EmptyStr} \cup PodNames
    /\ nsFlag \in Namespaces
    /\ projectFlag \in {EmptyStr} \cup ProjectIds
    /\ \E t \in ClusterFlagTriples :
          /\ clusterProjectFlag = t[1]
          /\ clusterLocationFlag = t[2]
          /\ clusterNameFlag = t[3]
    /\ prefix = EmptyStr /\ pod = EmptyStr /\ ksa = EmptyStr /\ gsa = EmptyStr
    /\ clusterProject = EmptyStr /\ clusterLocation = EmptyStr /\ clusterName = EmptyStr
    /\ wiPool = EmptyStr /\ hasAccess = FALSE /\ project = EmptyStr /\ roles = <<>>
    /\ gsaAPIResource = EmptyStr /\ gsaPolicy = <<>> /\ ksaMember = EmptyStr
    /\ iamPolicy = <<>>
    /\ userCurrent = "unknown"
    /\ calls = <<>>
    /\ pc = "start" /\ exitCode = -1
    /\ output = [kind |-> "none", args |-> <<>>, roles |-> <<>>]

\* log.Fatal / log.Fatalf: the message, then os.Exit(1).
Fatal(kind, args) ==
    /\ pc' = "exited"
    /\ exitCode' = 1
    /\ output' = [kind |-> kind, args |-> args, roles |-> <<>>]

\* An unrecovered run-time panic (index out of range): the goroutine trace,
\* then exit status 2.
Panic(kind) ==
    /\ pc' = "exited"
    /\ exitCode' = 2
    /\ output' = [kind |-> kind, args |-> <<>>, roles |-> <<>>]

Continue(next) ==
    /\ pc' = next
    /\ UNCHANGED <<exitCode, output>>

\* ------------------------------------------------------ main, step by step
\* Variant: only the absence of both names is refused.
InputsRejectedWhenBothEmpty(k, p) == k = EmptyStr /\ p = EmptyStr

\* main.go 66: the condition under which main refuses its inputs.
InputsRejected(k, p) == (k # EmptyStr) = (p # EmptyStr)

\* main.go 60-68: flag.Parse, the locals, the validation.
ValidateInputs ==
    /\ pc = "start"
    /\ prefix' = EmptyStr
    /\ pod' = podFlag
    /\ ksa' = ksaFlag
    /\ IF InputsRejected(ksaFlag, podFlag)
       THEN Fatal("usage", <<>>)
       ELSE Continue("restConfig")
    /\ UNCHANGED <<flagVars, gsa, clusterProject, clusterLocation, clusterName,
                   wiPool, hasAccess, project, roles, gsaAPIResource, gsaPolicy,
                   ksaMember, iamPolicy, userCurrent, calls>>

\* What os/user answers: the first answer is cached for the process.
UserAnswers == IF userCurrent = "unknown" THEN BOOLEAN ELSE {userCurrent = "ok"}

\* GetRESTConfig: the explicit kubeconfig, else the in-cluster config, else
\* ~/.kube/config.  fileOK, inClusterOK, userOK, homeOK are what the
\* environment answers to each attempt.
GetRESTConfig(serverURL, kubeconfig, fileOK, inClusterOK, userOK, homeOK) ==
    IF kubeconfig # EmptyStr
    THEN [err |-> ~fileOK, askedUser |-> FALSE,
          loads |-> <<Call("BuildConfigFromFlags", serverURL, kubeconfig, fileOK, EmptyStr)>>]
    ELSE IF inClusterOK
    THEN [err |-> FALSE, askedUser |-> FALSE,
          loads |-> <<Call("InClusterConfig", EmptyStr, EmptyStr, TRUE, EmptyStr)>>]
    ELSE IF userOK
    THEN [err |-> ~homeOK, askedUser |-> TRUE,
          loads |-> <<Call("InClusterConfig", EmptyStr, EmptyStr, FALSE, EmptyStr),
                      Call("BuildConfigFromFlags", EmptyStr, HomeKubeconfig, homeOK, EmptyStr)>>]
    ELSE [err |-> TRUE, askedUser |-> TRUE,
          loads |-> <<Call("InClusterConfig", EmptyStr, EmptyStr, FALSE, EmptyStr)>>]

\* main.go 70-77
BuildRESTConfig ==
    /\ pc = "restConfig"
    /\ \E fileOK \in BOOLEAN, inClusterOK \in BOOLEAN, userOK \in UserAnswers, homeOK \in BOOLEAN :
       \E r \in { GetRESTConfig(serverFlag, kubeconfigFlag, fileOK, inClusterOK, userOK, homeOK) } :
          /\ calls' = calls \o r.loads
          /\ userCurrent' = IF r.askedUser THEN (IF userOK THEN "ok" ELSE "err") ELSE userCurrent
          /\ IF r.err THEN Fatal("errKubeconfig", <<>>) ELSE Continue("podKSA")
    /\ UNCHANGED <<flagVars, prefix, pod, ksa, gsa, clusterProject, clusterLocation,
                   clusterName, wiPool, hasAccess, project, roles, gsaAPIResource,
                   gsaPolicy, ksaMember, iamPolicy>>

\* What the API server answers to Pods(ns).Get.
PodResponses == [err : BOOLEAN, name : PodNames, serviceAccountName : KsaNames]

\* Variant: the Pod's own name is taken for its KSA.
getPodKSAByPodName(resp) ==
    IF resp.err THEN [val |-> EmptyStr, err |-> TRUE]
    ELSE [val |-> resp.name, err |-> FALSE]

getPodKSA(resp) ==
    IF resp.err THEN [val |-> EmptyStr, err |-> TRUE]
    ELSE [val |-> resp.serviceAccountName, err |-> FALSE]

\* main.go 79-86
ResolvePodKSA ==
    /\ pc = "podKSA"
    /\ IF pod # EmptyStr
       THEN \E resp \in PodResponses :
           \E r \in { getPodKSA(resp) } :
              /\ resp.name = pod
              /\ prefix' = Sprintf(PodPrefixFormat, <<pod>>)
              /\ calls' = Append(calls, Call("PodGet", nsFlag, pod, ~resp.err,
                                             IF resp.err THEN EmptyStr ELSE resp.serviceAccountName))
              /\ ksa' = r.val
              /\ IF r.err THEN Fatal("errPodKSA", <<>>) ELSE Continue("annotation")
       ELSE /\ Continue("annotation")
            /\ UNCHANGED <<prefix, calls, ksa>>
    /\ UNCHANGED <<flagVars, pod, gsa, clusterProject, clusterLocation, clusterName,
                   wiPool, hasAccess, project, roles, gsaAPIResource, gsaPolicy,
                   ksaMember, iamPolicy, userCurrent>>

\* What the API server answers to ServiceAccounts(ns).Get: an error, or the
\* account with or without the iam.gke.io/gcp-service-account annotation.
SAResponses == [err : BOOLEAN, present : BOOLEAN, value : GsaEmails]

getKSAsWIAnotation(resp) ==
    IF resp.err THEN [val |-> EmptyStr, err |-> TRUE]
    ELSE IF ~resp.present THEN [val |-> EmptyStr, err |-> TRUE]
    ELSE [val |-> resp.value, err |-> FALSE]

\* main.go 88-91
ReadAnnotation ==
    /\ pc = "annotation"
    /\ \E resp \in SAResponses :
       \E r \in { getKSAsWIAnotation(resp) } :
          /\ calls' = Append(calls, Call("ServiceAccountGet", nsFlag, ksa, ~resp.err,
                                         IF r.err THEN EmptyStr ELSE resp.value))
          /\ gsa' = r.val
          /\ IF r.err THEN Fatal("errAnnotation", <<>>) ELSE Continue("cluster")
    /\ UNCHANGED <<flagVars, prefix, pod, ksa, clusterProject, clusterLocation,
                   clusterName, wiPool, hasAccess, project, roles, gsaAPIResource,
                   gsaPolicy, ksaMember, iamPolicy, userCurrent>>

\* What reading ~/.kube/config gives: whether it opens, whether it decodes,
\* and its current-context.
KubeconfigFiles == [open : BOOLEAN, decode : BOOLEAN, ctx : Contexts]

NoCluster == <<EmptyStr, EmptyStr, EmptyStr>>

\* getClusterFromKubeconfig: a failed user.Current returns a nil error
\* (main.go 266); sp[1], sp[2], sp[3] are read without a length check.
getClusterFromKubeconfig(userOK, f) ==
    IF ~userOK THEN [panic |-> FALSE, err |-> FALSE, val |-> NoCluster]
    ELSE IF ~f.open THEN [panic |-> FALSE, err |-> TRUE, val |-> NoCluster]
    ELSE IF ~f.decode THEN [panic |-> FALSE, err |-> TRUE, val |-> NoCluster]
    ELSE LET sp == Split(f.ctx, "_") IN
         IF Len(sp) < 4 THEN [panic |-> TRUE, err |-> FALSE, val |-> NoCluster]
         ELSE [panic |-> FALSE, err |-> FALSE, val |-> <<sp[2], sp[3], sp[4]>>]

\* main.go 93-102: the kubeconfig's cluster when err == nil, else the flags.
ChooseCluster(r, flagTriple) == IF ~r.err THEN r.val ELSE flagTriple

ResolveCluster ==
    /\ pc = "cluster"
    /\ \E userOK \in UserAnswers, f \in KubeconfigFiles :
       \E r \in { getClusterFromKubeconfig(userOK, f) } :
       \E c \in { ChooseCluster(r, <<clusterProjectFlag, clusterLocationFlag, clusterNameFlag>>) } :
          /\ userCurrent' = IF userOK THEN "ok" ELSE "err"
          /\ calls' = IF userOK
                      THEN Append(calls, Call("ReadKubeconfig", HomeKubeconfig, EmptyStr,
                                              f.open /\ f.decode,
                                              IF f.open /\ f.decode THEN f.ctx ELSE EmptyStr))
                      ELSE calls
          /\ IF r.panic
             THEN /\ Panic("panicCluster")
                  /\ UNCHANGED <<clusterProject, clusterLocation, clusterName>>
             ELSE /\ clusterProject' = c[1]
                  /\ clusterLocation' = c[2]
                  /\ clusterName' = c[3]
                  /\ Continue("wiPool")
    /\ UNCHANGED <<flagVars, prefix, pod, ksa, gsa, wiPool, hasAccess, project, roles,
                   gsaAPIResource, gsaPolicy, ksaMember, iamPolicy>>

\* What the GKE API answers to Clusters.Get.
ClusterResponses == [err : BOOLEAN, pool : Pools]

\* Variant: a failed Clusters.Get is not reported to main.
getWIPoolIgnoringError(svcOK, resp) ==
    IF ~svcOK THEN [val |-> EmptyStr, err |-> TRUE, called |-> FALSE]
    ELSE IF resp.err THEN [val |-> EmptyStr, err |-> FALSE, called |-> TRUE]
    ELSE [val |-> resp.pool, err |-> FALSE, called |-> TRUE]

\* getWIPool: svcOK is whether container.NewService could be built.
getWIPool(svcOK, resp) ==
    IF ~svcOK THEN [val |-> EmptyStr, err |-> TRUE, called |-> FALSE]
    ELSE IF resp.err THEN [val |-> EmptyStr, err |-> TRUE, called |-> TRUE]
    ELSE [val |-> resp.pool, err |-> FALSE, called |-> TRUE]

\* main.go 104-107
LookupWIPool ==
    /\ pc = "wiPool"
    /\ \E svcOK \in BOOLEAN, resp \in ClusterResponses :
       \E name \in { getClusterAPIName(clusterProject, clusterLocation, clusterName) } :
       \E r \in { getWIPool(svcOK, resp) } :
          /\ calls' = IF r.called
                      THEN Append(calls, Call("ClusterGet", name, EmptyStr, ~resp.err,
                                              IF resp.err THEN EmptyStr ELSE resp.pool))
                      ELSE calls
          /\ wiPool' = r.val
          /\ IF r.err THEN Fatal("errWIPool", <<>>) ELSE Continue("access")
    /\ UNCHANGED <<flagVars, prefix, pod, ksa, gsa, clusterProject, clusterLocation,
                   clusterName, hasAccess, project, roles, gsaAPIResource, gsaPolicy,
                   ksaMember, iamPolicy, userCurrent>>

\* What a GetIamPolicy call meets: the API client cannot be built, the call
\* fails, or the call returns one of `policies`.
PolicyAnswers(policies) ==
    { [svcOK |-> FALSE, resp |-> [err |-> TRUE, policy |-> <<>>]],
      [svcOK |-> TRUE, resp |-> [err |-> TRUE, policy |-> <<>>]] }
    \cup { [svcOK |-> TRUE, resp |-> [err |-> FALSE, policy |-> pol]] : pol \in policies }

\* ksaHasAccessToGSA: svcOK is whether iam.NewService could be built, resp
\* what the IAM API answers to ServiceAccounts.GetIamPolicy.
ksaHasAccessToGSA(wiPoolArg, ns, ksaName, gsaEmail, svcOK, resp) ==
    LET res == getGSAAPIResource(gsaEmail)
        member == ksaIAMPolicyMember(wiPoolArg, ns, ksaName)
        none == [panic |-> FALSE, err |-> TRUE, val |-> FALSE, called |-> FALSE,
                 resource |-> EmptyStr, policy |-> <<>>, member |-> EmptyStr]
    IN
    IF ~svcOK THEN none
    ELSE IF res.panic THEN [none EXCEPT !.panic = TRUE, !.err = FALSE]
    ELSE IF resp.err THEN [none EXCEPT !.called = TRUE, !.resource = res.val]
    ELSE [panic |-> FALSE, err |-> FALSE, called |-> TRUE,
          resource |-> res.val, policy |-> resp.policy, member |-> member,
          val |-> BindingsGrant(resp.policy, member)]

\* Variant: main goes on when the check says no.
AccessVerdictNeverDenied(r) == IF r.err THEN "error" ELSE "granted"

\* main.go 108-113: what main does with the answer of the access check.
AccessVerdict(r) ==
    IF r.err THEN "error"
    ELSE IF ~r.val THEN "denied"
    ELSE "granted"

CheckAccess(policies) ==
    /\ pc = "access"
    /\ \E ans \in PolicyAnswers(policies) :
       \E r \in { ksaHasAccessToGSA(wiPool, nsFlag, ksa, gsa, ans.svcOK, ans.resp) } :
          /\ calls' = IF r.called
                      THEN Append(calls, Call("GSAGetIamPolicy", r.resource, EmptyStr,
                                              ~ans.resp.err, EmptyStr))
                      ELSE calls
          /\ gsaAPIResource' = r.resource
          /\ gsaPolicy' = r.policy
          /\ ksaMember' = r.member
          /\ hasAccess' = r.val
          /\ IF r.panic THEN Panic("panicResource")
             ELSE IF AccessVerdict(r) = "error" THEN Fatal("errAccess", <<>>)
             ELSE IF AccessVerdict(r) = "denied" THEN Fatal("denied", <<prefix, ksa, gsa>>)
             ELSE Continue("project")
    /\ UNCHANGED <<flagVars, prefix, pod, ksa, gsa, clusterProject, clusterLocation,
                   clusterName, wiPool, project, roles, iamPolicy, userCurrent>>

CheckAccessRun == CheckAccess(RunGsaPolicies)

\* What running gcloud gives: a failure, or its standard output.
GcloudResults == [err : BOOLEAN, out : GcloudOutputs]

\* Variant: gcloud's output is used as printed.
determineProjectUntrimmed(projectFlagValue, cmd) ==
    IF projectFlagValue # EmptyStr
    THEN [val |-> projectFlagValue, err |-> FALSE, ran |-> FALSE]
    ELSE IF cmd.err THEN [val |-> EmptyStr, err |-> TRUE, ran |-> TRUE]
    ELSE [val |-> cmd.out, err |-> FALSE, ran |-> TRUE]

determineProject(projectFlagValue, cmd) ==
    IF projectFlagValue # EmptyStr
    THEN [val |-> projectFlagValue, err |-> FALSE, ran |-> FALSE]
    ELSE IF cmd.err THEN [val |-> EmptyStr, err |-> TRUE, ran |-> TRUE]
    ELSE [val |-> TrimSpace(cmd.out), err |-> FALSE, ran |-> TRUE]

\* main.go 114-117
DetermineProject ==
    /\ pc = "project"
    /\ \E cmd \in GcloudResults :
       \E r \in { determineProject(projectFlag, cmd) } :
          /\ calls' = IF r.ran
                      THEN Append(calls, Call("gcloud", EmptyStr, EmptyStr, ~cmd.err,
                                              IF cmd.err THEN EmptyStr ELSE cmd.out))
                      ELSE calls
          /\ project' = r.val
          /\ IF r.err THEN Fatal("errProject", <<>>) ELSE Continue("roles")
    /\ UNCHANGED <<flagVars, prefix, pod, ksa, gsa, clusterProject, clusterLocation,
                   clusterName, wiPool, hasAccess, roles, gsaAPIResource, gsaPolicy,
                   ksaMember, iamPolicy, userCurrent>>

\* getGSAsRolesOnProject: svcOK is whether cloudresourcemanager.NewService
\* could be built, resp what Projects.GetIamPolicy answers.
getGSAsRolesOnProject(prj, gsaEmail, svcOK, resp) ==
    IF ~svcOK THEN [val |-> <<>>, err |-> TRUE, called |-> FALSE, policy |-> <<>>]
    ELSE IF resp.err THEN [val |-> <<>>, err |-> TRUE, called |-> TRUE, policy |-> <<>>]
    ELSE [val |-> RolesOf(resp.policy, gsaIAMPolicyMember(gsaEmail)),
          err |-> FALSE, called |-> TRUE, policy |-> resp.policy]

\* main.go 118-121
ListRoles(policies) ==
    /\ pc = "roles"
    /\ \E ans \in PolicyAnswers(policies) :
       \E r \in { getGSAsRolesOnProject(project, gsa, ans.svcOK, ans.resp) } :
          /\ calls' = IF r.called
                      THEN Append(calls, Call("ProjectGetIamPolicy", project, EmptyStr,
                                              ~ans.resp.err, EmptyStr))
                      ELSE calls
          /\ iamPolicy' = r.policy
          /\ roles' = r.val
          /\ IF r.err THEN Fatal("errRoles", <<gsa, project>>) ELSE Continue("print")
    /\ UNCHANGED <<flagVars, prefix, pod, ksa, gsa, clusterProject, clusterLocation,
                   clusterName, wiPool, hasAccess, project, gsaAPIResource, gsaPolicy,
                   ksaMember, userCurrent>>

ListRolesRun == ListRoles(RunProjectPolicies)

\* main.go 123-125: the success sentence, then main returns.
PrintResult ==
    /\ pc = "print"
    /\ pc' = "exited"
    /\ exitCode' = 0
    /\ output' = [kind |-> "success", args |-> <<prefix, ksa, gsa, project>>, roles |-> roles]
    /\ UNCHANGED <<flagVars, prefix, pod, ksa, gsa, clusterProject, clusterLocation,
                   clusterName, wiPool, hasAccess, project, roles, gsaAPIResource,
                   gsaPolicy, ksaMember, iamPolicy, userCurrent, calls>>

Next ==
    \/ ValidateInputs
    \/ BuildRESTConfig
    \/ ResolvePodKSA
    \/ ReadAnnotation
    \/ ResolveCluster
    \/ LookupWIPool
    \/ CheckAccessRun
    \/ DetermineProject
    \/ ListRolesRun
    \/ PrintResult

Spec == Init /\ [][Next]_vars

\* ------------------------------------------- the access check on its own
\* A run of `diagnose-wi -kubeconfig c -ns n -pod x` that has reached the
\* access check: the Pod's KSA is k, the GSA a@b.c, the pool p.s.
AtAccessCheck ==
    /\ serverFlag = EmptyStr /\ kubeconfigFlag = <<"c">> /\ ksaFlag = EmptyStr
    /\ nsFlag = <<"n">> /\ podFlag = <<"x">> /\ projectFlag = EmptyStr
    /\ clusterProjectFlag = EmptyStr /\ clusterLocationFlag = EmptyStr
    /\ clusterNameFlag = EmptyStr
    /\ prefix = Sprintf(PodPrefixFormat, <<podFlag>>)
    /\ pod = podFlag
    /\ ksa = <<"k">>
    /\ gsa = <<"a","@","b",".","c">>
    /\ clusterProject = <<"p">> /\ clusterLocation = <<"l">> /\ clusterName = <<"n">>
    /\ wiPool = <<"p",".","s">>
    /\ hasAccess = FALSE /\ project = EmptyStr /\ roles = <<>>
    /\ gsaAPIResource = EmptyStr /\ gsaPolicy = <<>> /\ ksaMember = EmptyStr
    /\ iamPolicy = <<>>
    /\ userCurrent = "ok"
    /\ calls = << Call("BuildConfigFromFlags", EmptyStr, <<"c">>, TRUE, EmptyStr),
                  Call("PodGet", <<"n">>, <<"x">>, TRUE, ksa),
                  Call("ServiceAccountGet", <<"n">>, ksa, TRUE, gsa),
                  Call("ReadKubeconfig", HomeKubeconfig, EmptyStr, TRUE,
                       <<"g","_","p","_","l","_","n">>),
                  Call("ClusterGet", getClusterAPIName(<<"p">>, <<"l">>, <<"n">>),
                       EmptyStr, TRUE, <<"p",".","s">>) >>
    /\ pc = "access" /\ exitCode = -1
    /\ output = [kind |-> "none", args |-> <<>>, roles |-> <<>>]

\* GSA policies for the access check: every role of the allow-list and one
\* outside it, over the principals of the KSAs k and K of namespace n.
AccessRoles == ksaRoles \cup { "roles/viewer" }
AccessMembers == RunGsaPolicyMembers
AccessPolicies == PoliciesOver(AccessRoles, AccessMembers, MaxBindings, MaxMembers)

CheckAccessAny == CheckAccess(AccessPolicies)

SpecAccess == AtAccessCheck /\ [][CheckAccessAny]_vars

\* ----------------------------------------- the role listing on its own
\* The same run, further on: the GSA's policy granted access through
\* roles/iam.workloadIdentityUser, gcloud named the project j, and the
\* project's IAM policy is about to be read.
AtRoleListing ==
    /\ serverFlag = EmptyStr /\ kubeconfigFlag = <<"c">> /\ ksaFlag = EmptyStr
    /\ nsFlag = <<"n">> /\ podFlag = <<"x">> /\ projectFlag = EmptyStr
    /\ clusterProjectFlag = EmptyStr /\ clusterLocationFlag = EmptyStr
    /\ clusterNameFlag = EmptyStr
    /\ prefix = Sprintf(PodPrefixFormat, <<podFlag>>)
    /\ pod = podFlag
    /\ ksa = <<"k">>
    /\ gsa = <<"a","@","b",".","c">>
    /\ clusterProject = <<"p">> /\ clusterLocation = <<"l">> /\ clusterName = <<"n">>
    /\ wiPool = <<"p",".","s">>
    /\ hasAccess = TRUE /\ project = <<"j">> /\ roles = <<>>
    /\ gsaAPIResource = getGSAAPIResource(gsa).val
    /\ ksaMember = ksaIAMPolicyMember(wiPool, nsFlag, ksa)
    /\ gsaPolicy = << [role |-> "roles/iam.workloadIdentityUser", members |-> <<ksaMember>>] >>
    /\ iamPolicy = <<>>
    /\ userCurrent = "ok"
    /\ calls = << Call("BuildConfigFromFlags", EmptyStr, <<"c">>, TRUE, EmptyStr),
                  Call("PodGet", <<"n">>, <<"x">>, TRUE, ksa),
                  Call("ServiceAccountGet", <<"n">>, ksa, TRUE, gsa),
                  Call("ReadKubeconfig", HomeKubeconfig, EmptyStr, TRUE,
                       <<"g","_","p","_","l","_","n">>),
                  Call("ClusterGet", getClusterAPIName(<<"p">>, <<"l">>, <<"n">>),
                       EmptyStr, TRUE, <<"p",".","s">>),
                  Call("GSAGetIamPolicy", gsaAPIResource, EmptyStr, TRUE, EmptyStr),
                  Call("gcloud", EmptyStr, EmptyStr, TRUE, <<"j","\n">>) >>
    /\ pc = "roles" /\ exitCode = -1
    /\ output = [kind |-> "none", args |-> <<>>, roles |-> <<>>]

\* Project policies for the role listing, over the GSA's principal and the
\* principal of the GSA a@b, which differs from it in its last two characters.
ListingRoles == { "roles/viewer", "roles/editor", "roles/storage.admin" }
ListingMembers == RunProjectPolicyMembers
ListingPolicies == PoliciesOver(ListingRoles, ListingMembers, MaxBindings, MaxMembers)

ListRolesAny == ListRoles(ListingPolicies)

SpecRoles == AtRoleListing /\ [][ListRolesAny \/ PrintResult]_vars

\* ---------------------------------------------------------- properties
\* The text "serviceAccount:".
ServiceAccountPrefix ==
    <<"s","e","r","v","i","c","e","A","c","c","o","u","n","t",":">>

\* The calls the program makes to the Kubernetes API server, the GKE API,
\* the IAM API, gcloud and the Resource Manager API.
ExternalKinds ==
    { "PodGet", "ServiceAccountGet", "ClusterGet", "GSAGetIamPolicy", "gcloud",
      "ProjectGetIamPolicy" }

CallsOf(kind) == { i \in DOMAIN calls : calls[i].kind = kind }
Made(kind) == CallsOf(kind) # {}
Succeeded(kind) == \E i \in CallsOf(kind) : calls[i].ok
Failed(kind) == \E i \in CallsOf(kind) : ~calls[i].ok
\* The answer of the successful call of a kind (kinds are called at most once).
AnswerOf(kind) == calls[CHOOSE i \in CallsOf(kind) : calls[i].ok].resp

ExactlyOneInput ==
    \/ ksaFlag # EmptyStr /\ podFlag = EmptyStr
    \/ ksaFlag = EmptyStr /\ podFlag # EmptyStr

\* C1: main goes past its input validation iff exactly one of -ksa and -pod
\* is non-empty; otherwise it ends fatally at the validation, before any
\* kubeconfig load and before any call to the outside.
C1_ExactlyOneOfKsaAndPod ==
    pc # "start" =>
        /\ (output.kind = "usage") <=> ~ExactlyOneInput
        /\ output.kind = "usage" => pc = "exited" /\ exitCode = 1 /\ calls = <<>>
        /\ ExactlyOneInput =>
              \/ pc \in {"restConfig", "podKSA", "annotation", "cluster", "wiPool",
                         "access", "project", "roles", "print"}
              \/ pc = "exited" /\ calls # <<>>

\* Both -ksa and -pod were given and the run ended at the validation.
C1_Witness ==
    /\ ksaFlag # EmptyStr /\ podFlag # EmptyStr
    /\ pc = "exited" /\ output.kind = "usage"

\* C3: a failed external call is the last call of the run, the process has
\* exited with status 1 in the same step, and no kind of call is made twice.
C3_ExternalFailureIsFatal ==
    /\ \A i \in DOMAIN calls :
          (calls[i].kind \in ExternalKinds /\ ~calls[i].ok) =>
              /\ i = Len(calls)
              /\ pc = "exited"
              /\ exitCode = 1
              /\ output.kind \in {"errPodKSA", "errAnnotation", "errWIPool", "errAccess",
                                  "errProject", "errRoles"}
    /\ \A k \in ExternalKinds : Cardinality(CallsOf(k)) <= 1

\* gcloud failed after five successful lookups, and the run ended there.
C3_Witness ==
    /\ Failed("gcloud")
    /\ Succeeded("PodGet") /\ Succeeded("GSAGetIamPolicy")
    /\ exitCode = 1

\* Every lookup of the run was made and succeeded.
AllLookupsSucceeded ==
    /\ podFlag # EmptyStr => Succeeded("PodGet")
    /\ Succeeded("ServiceAccountGet")
    /\ Succeeded("ClusterGet")
    /\ Succeeded("GSAGetIamPolicy")
    /\ projectFlag = EmptyStr => Succeeded("gcloud")
    /\ Succeeded("ProjectGetIamPolicy")

\* C4: the success sentence and exit status 0 go together, and happen iff
\* every lookup succeeded and the access check said yes; an access check
\* that says no without an error ends the run with status 1 and the "does
\* not grant access" message, with no project determined and no project
\* policy read.
C4_SuccessIffGranted ==
    /\ (exitCode = 0) <=> (output.kind = "success")
    /\ output.kind = "success" =>
          /\ AllLookupsSucceeded /\ hasAccess
          /\ output.args = <<prefix, ksa, gsa, project>> /\ output.roles = roles
    /\ (pc = "exited" /\ AllLookupsSucceeded /\ hasAccess) => output.kind = "success"
    /\ (Succeeded("GSAGetIamPolicy") /\ ~hasAccess) =>
          /\ pc = "exited" /\ exitCode = 1
          /\ output.kind = "denied" /\ output.args = <<prefix, ksa, gsa>>
          /\ ~Made("gcloud") /\ ~Made("ProjectGetIamPolicy")
          /\ project = EmptyStr
    /\ output.kind = "denied" => Succeeded("GSAGetIamPolicy") /\ ~hasAccess

\* The GSA's policy was read, does not grant access, and the run has ended.
C4_Witness ==
    /\ Succeeded("GSAGetIamPolicy") /\ ~hasAccess
    /\ gsaPolicy # <<>>
    /\ output.kind = "denied"

\* The KSA name main works with: the Pod's, or the -ksa flag.
ResolvedKsa == IF podFlag # EmptyStr THEN AnswerOf("PodGet") ELSE ksaFlag

\* serviceAccount:P[N/K], written out.
Principal(P, N, K) ==
    ServiceAccountPrefix \o P \o <<"[">> \o N \o <<"/">> \o K \o <<"]">>

\* C5: once the GSA's policy has been read, the member it is searched for
\* is "serviceAccount:" P "[" N "/" K "]" with P the pool the GKE lookup
\* returned, N the -ns flag and K the resolved KSA name, and the access check
\* says yes exactly when a binding with an allow-listed role lists it.
C5_KsaPrincipalFormat ==
    Succeeded("GSAGetIamPolicy") =>
        /\ ksaMember = Principal(AnswerOf("ClusterGet"), nsFlag, ResolvedKsa)
        /\ hasAccess <=>
              \E i \in DOMAIN gsaPolicy :
                  /\ gsaPolicy[i].role \in ksaRoles
                  /\ \E j \in DOMAIN gsaPolicy[i].members :
                        gsaPolicy[i].members[j] = ksaMember

\* A Pod's KSA K in namespace n of a cluster with pool p.s was granted access.
C5_Witness ==
    /\ podFlag # EmptyStr
    /\ Succeeded("GSAGetIamPolicy") /\ hasAccess
    /\ ksaMember = <<"s","e","r","v","i","c","e","A","c","c","o","u","n","t",":",
                     "p",".","s","[","n","/","K","]">>

\* The allow-list, written out.
AllowListedRoles ==
    { "roles/iam.workloadIdentityUser", "roles/iam.serviceAccountTokenCreator",
      "roles/editor", "roles/owner" }

\* Binding i of the GSA's policy lists member m.
GsaBindingLists(i, m) ==
    \E j \in DOMAIN gsaPolicy[i].members : gsaPolicy[i].members[j] = m

GsaBindings ==
    { i \in DOMAIN iamPolicy :
        \E j \in DOMAIN iamPolicy[i].members :
            iamPolicy[i].members[j] = ServiceAccountPrefix \o gsa }

\* C7: the roles listed are those of the bindings that list
\* "serviceAccount:<email>", one per such binding, in the policy's order.
C7_RolesOfGsaBindings ==
    Succeeded("ProjectGetIamPolicy") =>
        /\ Len(roles) = Cardinality(GsaBindings)
        /\ \A i \in GsaBindings :
              roles[Cardinality({ k \in GsaBindings : k <= i })] = iamPolicy[i].role

\* The first binding lists the GSA twice and contributes its role once; the
\* second lists only the GSA a@b and contributes nothing.
C7_Witness ==
    /\ Succeeded("ProjectGetIamPolicy")
    /\ Len(iamPolicy) = 2
    /\ iamPolicy[1].members = <<ServiceAccountPrefix \o gsa, ServiceAccountPrefix \o gsa>>
    /\ iamPolicy[2].members = <<ServiceAccountPrefix \o <<"a","@","b">> >>
    /\ roles = <<iamPolicy[1].role>>

\* s consists of white space only.
AllSpace(s) == \A i \in DOMAIN s : s[i] \in {" ", "\n", "\t", "\r"}

\* t is s without the white space around it.
IsTrimOf(t, s) ==
    /\ t = <<>> \/ (~AllSpace(<<t[1]>>) /\ ~AllSpace(<<t[Len(t)]>>))
    /\ \E a \in 0..Len(s), b \in 0..Len(s) :
          /\ a + Len(t) + b = Len(s)
          /\ AllSpace(SubSeq(s, 1, a))
          /\ SubSeq(s, a + 1, a + Len(t)) = t
          /\ AllSpace(SubSeq(s, a + Len(t) + 1, Len(s)))

\* C8: with a non-empty -project the project is the flag and gcloud is not
\* run; with an empty one gcloud is run, and the project is its output
\* without the surrounding white space, or the run ends fatally when gcloud
\* fails.
C8_ProjectFromFlagOrGcloud ==
    /\ Made("gcloud") => projectFlag = EmptyStr
    /\ Failed("gcloud") =>
          pc = "exited" /\ exitCode = 1 /\ output.kind = "errProject"
    /\ Succeeded("gcloud") => IsTrimOf(project, AnswerOf("gcloud"))
    /\ (pc \in {"roles", "print"} \/ Made("ProjectGetIamPolicy")
        \/ output.kind \in {"errRoles", "success"}) =>
          IF projectFlag # EmptyStr
          THEN project = projectFlag /\ ~Made("gcloud")
          ELSE Succeeded("gcloud")

\* gcloud printed " j \n" and the project is j.
C8_Witness ==
    /\ Succeeded("gcloud")
    /\ AnswerOf("gcloud") = <<" ","j"," ","\n">>
    /\ project = <<"j">>
    /\ Made("ProjectGetIamPolicy")

\* C10: with -pod the Pod is read once, in the -ns namespace, and the KSA
\* name of every later step is the Pod's serviceAccountName; with -ksa no
\* Pod is read and the name is the flag; the annotation read and the
\* principal use the -ns namespace and that name.
C10_PodResolvesKsaOnce ==
    /\ Cardinality(CallsOf("PodGet")) <= 1
    /\ \A i \in CallsOf("PodGet") :
          podFlag # EmptyStr /\ calls[i].a1 = nsFlag /\ calls[i].a2 = podFlag
    /\ (podFlag # EmptyStr /\ pc \notin {"start", "restConfig", "podKSA"}
        /\ output.kind \notin {"usage", "errKubeconfig"}) => Made("PodGet")
    /\ Succeeded("PodGet") => ksa = AnswerOf("PodGet")
    /\ (podFlag = EmptyStr /\ pc # "start") => ksa = ksaFlag
    /\ \A i \in CallsOf("ServiceAccountGet") :
          /\ calls[i].a1 = nsFlag /\ calls[i].a2 = ResolvedKsa
          /\ podFlag # EmptyStr => \E j \in CallsOf("PodGet") : j < i
    /\ Succeeded("GSAGetIamPolicy") =>
          ksaMember = Principal(wiPool, nsFlag, ResolvedKsa)
    /\ output.kind \in {"denied", "success"} => output.args[2] = ResolvedKsa

\* A run with -pod whose Pod runs as K reached the success sentence.
C10_Witness ==
    /\ podFlag # EmptyStr
    /\ Succeeded("PodGet") /\ AnswerOf("PodGet") = <<"K">>
    /\ output.kind = "success"

\* The text of e between its first "@" and the next "." (or its end).
ProjectOfEmail(e) ==
    LET at == CHOOSE i \in DOMAIN e : e[i] = "@" /\ \A k \in 1..(i - 1) : e[k] # "@"
        dots == { i \in DOMAIN e : i > at /\ e[i] = "." }
        dot == IF dots = {} THEN Len(e) + 1
               ELSE CHOOSE i \in dots : \A k \in dots : i <= k
    IN SubSeq(e, at + 1, dot - 1)

\* projects/<p>/serviceAccounts/<email>, written out.
GsaResourceOf(e) ==
    <<"p","r","o","j","e","c","t","s","/">> \o ProjectOfEmail(e)
    \o <<"/","s","e","r","v","i","c","e","A","c","c","o","u","n","t","s","/">> \o e

\* C6: for every value of the annotation, getGSAAPIResource yields
\* projects/<p>/serviceAccounts/<email> with <p> the text between the first
\* "@" and the next "."; it yields a value, and does not abort the process,
\* also for an empty value or one without "@".
C6_ResourceForEveryAnnotation ==
    /\ output.kind # "panicResource"
    /\ \A i \in CallsOf("GSAGetIamPolicy") :
          /\ \E k \in DOMAIN gsa : gsa[k] = "@"
          /\ calls[i].a1 = GsaResourceOf(gsa)

\* The part of C6 the code keeps: when the annotation holds an "@", the
\* resource read is projects/<p>/serviceAccounts/<email>.
C6_ResourceWhenEmailHasAt ==
    \A i \in CallsOf("GSAGetIamPolicy") :
        /\ \E k \in DOMAIN gsa : gsa[k] = "@"
        /\ calls[i].a1 = GsaResourceOf(gsa)

\* The cluster step of main has been passed, or has aborted the process.
ClusterStepDone ==
    \/ pc \in {"wiPool", "access", "project", "roles", "print"}
    \/ Made("ClusterGet")
    \/ output.kind \in {"panicCluster", "errWIPool"}

\* ~/.kube/config was decoded and its current-context has four parts.
ClusterInKubeconfig ==
    \E i \in CallsOf("ReadKubeconfig") :
        /\ calls[i].ok
        /\ Cardinality({ k \in DOMAIN calls[i].resp : calls[i].resp[k] = "_" }) >= 3

\* C9: whenever the cluster cannot be taken from the kubeconfig (no current
\* user, no readable or decodable ~/.kube/config, a current-context of
\* fewer than four parts), the cluster looked up is that of -clusterProject,
\* -clusterLocation and -clusterName, and the process does not abort at
\* this step.
C9_FlagsWhenKubeconfigFails ==
    (ClusterStepDone /\ ~ClusterInKubeconfig) =>
        /\ output.kind # "panicCluster"
        /\ clusterProject = clusterProjectFlag
        /\ clusterLocation = clusterLocationFlag
        /\ clusterName = clusterNameFlag

====
